---- MODULE Spec2Model ----
(***************************************************************************)
(* State-machine model of rnapipey's pipeline orchestrator                 *)
(* (src/rnapipey/pipeline.py): the persisted stage state, the stage        *)
(* sequence of Pipeline.run, the per-predictor loop of stage 3 and the     *)
(* resume logic, together with the parts of the tool wrappers that decide  *)
(* a stage's status.                                                       *)
(***************************************************************************)
EXTENDS Integers, Sequences, FiniteSets, TLC

(* ------------------------------ bounds -------------------------------- *)

\* Pipeline objects constructed (and run) against one output directory.
MaxRuns == 2
\* Largest --nstruct; also the most structure files one invocation leaves.
MaxNstruct == 2
\* Largest number of entries of the device list.
MaxDevices == 2
\* Longest list of requested predictors.
MaxPreds == 2
\* Departures from the nominal scenario in one behaviour: collaborator
\* outcomes other than plain success, switches and settings off their
\* default, crashes, and deletions of the outputs between two runs.
MaxFaults == 1

MaxFiles == MaxNstruct

(* --------------------------- program constants ------------------------ *)

\* SimRNAConfig.clustering_top_n default
DefaultTopN == 5
\* first Protenix seed: seeds = range(42, 42 + nstruct)
ProtenixSeedBase == 42

PREDICTOR_CLASSES == {"rhofold", "simrna", "protenix"}

\* A name that is not a key of PREDICTOR_CLASSES.
UnknownPredictor == "bogus"

PredNames == PREDICTOR_CLASSES \cup {UnknownPredictor}

\* The order in which the CLI appends predictors; request lists are drawn
\* as order-preserving sub-lists of it.
CanonicalOrder == <<"rhofold", "simrna", "protenix", "bogus">>

Stage3Key(pred_name) ==
    CASE pred_name = "rhofold"  -> "stage3_rhofold"
      [] pred_name = "simrna"   -> "stage3_simrna"
      [] pred_name = "protenix" -> "stage3_protenix"
      [] OTHER                  -> "stage3_bogus"

StageKeys ==
    {"stage1", "stage2", "stage3b_clustering", "stage4", "stage5"}
        \cup {Stage3Key(p) : p \in PredNames}

Statuses == {"completed", "skipped", "failed"}

\* state.get(stage) of a key that has no entry
NoEntry == "absent"

EmptyState == [k \in StageKeys |-> NoEntry]

(* ------------------------- state management --------------------------- *)

\* the status compared with a word _mark never writes
CompletedMisspelt(st, stage) == st[stage] = "complete"

\* Pipeline._completed
Completed(st, stage) == st[stage] = "completed"

\* Pipeline._mark, the in-memory part: self.state[stage] = status
Mark(st, stage, status) == [st EXCEPT ![stage] = status]

\* _mark without the write of the state file
SaveStateDropped(st, file) == file

\* Pipeline._save_state: the whole in-memory mapping replaces the file
SaveState(st, file) == st

\* a Pipeline that starts from an empty mapping whatever the file holds
LoadStateFresh(file) == EmptyState

\* Pipeline._load_state: the file's mapping, {} when there is no file
LoadState(file) == file

(* ---------------------------- tool results ---------------------------- *)

\* ToolResult reduced to what the orchestrator reads: whether there is a
\* result at all (None otherwise), its success flag, and the number of
\* structure files listed under output_files["all_pdbs"].
ToolResult(success, n) == [present |-> TRUE, success |-> success, n |-> n]

None == [present |-> FALSE, success |-> FALSE, n |-> 0]

\* What one collaborator does when asked: check() false ("unavail"), ran and
\* reported failure ("fail"), ran and succeeded leaving n files ("ok"), or
\* the subprocess call raised, e.g. subprocess.TimeoutExpired ("raise").
Outcome(k, n) == [k |-> k, n |-> n]

Unset == Outcome("unset", 0)

\* Anything but plain success.  "nohit": cmscan ran, but no family was found
\* or no MSA could be built; "partial": a predictor succeeded with fewer
\* structure files than it was asked for.
IsFault(o) == o.k \in {"unavail", "fail", "raise", "nohit", "partial"}

\* the collaborator ran and reported success
Succeeded(o) == o.k \in {"ok", "partial"}

Sites == {"infernal", "rnafold", "spotrna", "rhofold", "simrna", "protenix",
          "cluster", "rnadvisor"}

Min(a, b) == IF a < b THEN a ELSE b

Max(a, b) == IF a > b THEN a ELSE b

(* --------------------------- device dispatch -------------------------- *)

\* all_seeds = list(range(nstruct)) / seeds = list(range(42, 42 + nstruct))
SeedList(first, nstruct) == [i \in 1..nstruct |-> first + i - 1]

\* every seed appended to the first group
RoundRobinFirst(groups, seeds, i, n_gpus) == [groups EXCEPT ![1] = seeds]

\* for i, seed in enumerate(seeds): seed_groups[i % n_gpus].append(seed)
RECURSIVE RoundRobin(_, _, _, _)
RoundRobin(groups, seeds, i, n_gpus) ==
    IF i > Len(seeds) THEN groups
    ELSE RoundRobin([groups EXCEPT ![((i - 1) % n_gpus) + 1] = Append(@, seeds[i])],
                    seeds, i + 1, n_gpus)

seed_groups(seeds, n_gpus) ==
    RoundRobin([g \in 1..n_gpus |-> <<>>], seeds, 1, n_gpus)

\* one future per group, empty or not
SubmittedAll(groups) == DOMAIN groups

\* the futures submitted: one per non-empty group ("if grp")
Submitted(groups) == {g \in DOMAIN groups : groups[g] # <<>>}

\* What one partition's run_batch / run can do with its seeds.
PartOutcomes(seeds) ==
    {Outcome("fail", 0), Outcome("raise", 0), Outcome("ok", Len(seeds))}
        \cup {Outcome("partial", k) : k \in 1..(Len(seeds) - 1)}

RECURSIVE SumOk(_, _)
SumOk(po, gs) ==
    IF gs = {} THEN 0
    ELSE LET g == CHOOSE x \in gs : TRUE
         IN (IF Succeeded(po[g]) THEN po[g].n ELSE 0) + SumOk(po, gs \ {g})

\* The merge loop of _run_rhofold_ensemble / _run_protenix reduced to the
\* success flag and the length of the merged file list; future.result()
\* re-raises what a partition raised.
MergeOutcome(po) ==
    IF \E g \in DOMAIN po : po[g].k = "raise" THEN Outcome("raise", 0)
    ELSE IF \E g \in DOMAIN po : Succeeded(po[g])
         THEN Outcome(IF \A g \in DOMAIN po : po[g].k = "ok" THEN "ok" ELSE "partial",
                      SumOk(po, DOMAIN po))
         ELSE Outcome("fail", 0)

DispatchOutcomes(seeds, n_gpus) ==
    LET groups == seed_groups(seeds, n_gpus)
        all == UNION {PartOutcomes(groups[g]) : g \in Submitted(groups)}
    IN {MergeOutcome(po) : po \in {f \in [Submitted(groups) -> all] :
                                     \A g \in Submitted(groups) : f[g] \in PartOutcomes(groups[g])}}

\* One invocation handed all seeds (run_batch, ProtenixTool.run).
SingleOutcomes(nstruct) ==
    {Outcome("fail", 0), Outcome("raise", 0), Outcome("ok", nstruct)}
        \cup {Outcome("partial", k) : k \in 1..(nstruct - 1)}

(* ------------------------------ the state ----------------------------- *)

VARIABLES
    state_file,         \* pipeline_state.json: stage key -> status
    state,              \* Pipeline.state, the in-memory mapping
    pc,                 \* where the control thread is
    runs,               \* Pipeline objects constructed so far
    opts,               \* arguments of run() and the configuration
    fs,                 \* the output directory: which outputs exist
    idx,                \* position of stage 3's loop in predictors
    msa_path,           \* run(): msa_path is not None
    ss_result,          \* run(): "None", "ok" (success) or "fail"
    predictor_results,  \* _run_stage3: results, by predictor name
    ensemble_result,    \* run(): 0 for None, else the number of clusters
    scoring_result,     \* run(): "None", "ok" or "fail"
    work,               \* stage keys whose work this run has performed
    loaded,             \* the mapping _load_state returned to this Pipeline
    memo,               \* what each collaborator does in this environment
    ext,                \* departures that memo and opts do not show
    steady,             \* nothing outside run() interfered since this run began
    twice,              \* ... nor during the whole previous run
    pdb_files,          \* _run_stage4: the structures collected for the scorer
    marks,              \* the stage keys _mark was called with in this run, in order
    dpc,                \* a dispatching predictor's call: where it stands
    call,               \* ... its arguments: predictor, nstruct, devices
    parts,              \* ... seed_groups
    futures,            \* ... the batches submitted, by partition index
    gpu_results,        \* ... gpu_results / group_results, as appended
    merged,             \* ... the ToolResult returned
    invoked,            \* ... the invocations made on the calling thread
    epc,                \* a call of cluster_structures: where it stands
    cands,              \* ... pdb_files with predictor_labels
    cutoff,             \* ... the RMSD cutoff
    rmsd_matrix,        \* ... what compute_pairwise_rmsd returned
    rmsd_safe,          \* ... the matrix handed to linkage
    clusters            \* ... the cluster list returned

pvars == <<state_file, state, pc, runs, opts, fs, idx, msa_path, ss_result,
          predictor_results, ensemble_result, scoring_result, work, loaded,
          memo, ext, steady, twice, marks, pdb_files>>

dvars == <<dpc, call, parts, futures, gpu_results, merged, invoked>>

evars == <<epc, cands, cutoff, rmsd_matrix, rmsd_safe, clusters>>

vars == <<pvars, dvars, evars>>

locals == <<idx, msa_path, ss_result, predictor_results, ensemble_result,
            scoring_result, pdb_files>>

RECURSIVE SubLists(_, _)
\* order-preserving sub-lists of s of length at most n
SubLists(s, n) ==
    IF s = <<>> \/ n = 0 THEN {<<>>}
    ELSE SubLists(Tail(s), n)
           \cup {<<Head(s)>> \o t : t \in SubLists(Tail(s), n - 1)}

PredLists == SubLists(CanonicalOrder, MaxPreds)

\* switches that are set, an input without records, a non-default top_n
Deviations(o) ==
    (IF o.skip_infernal THEN 1 ELSE 0) + (IF o.skip_scoring THEN 1 ELSE 0)
        + (IF o.run_spotrna THEN 1 ELSE 0) + (IF o.records = 0 THEN 1 ELSE 0)
        + (IF o.top_n # DefaultTopN THEN 1 ELSE 0)

\* lengths of the device list: none given (the default), or several
DeviceCounts == (0..MaxDevices) \ {1}

Requested(o) == {o.predictors[i] : i \in DOMAIN o.predictors}

\* A top_n off its default is drawn only when SimRNA is requested, a device
\* list only when a predictor that dispatches over devices is.
Options ==
    {o \in [predictors   : PredLists,
            nstruct      : 1..MaxNstruct,
            devices      : DeviceCounts,
            skip_infernal: BOOLEAN,
            run_spotrna  : BOOLEAN,
            skip_scoring : BOOLEAN,
            records      : 0..1,
            top_n        : {1, DefaultTopN}] :
        /\ Deviations(o) <= MaxFaults
        /\ (o.top_n # DefaultTopN => "simrna" \in Requested(o))
        /\ (o.devices # 0 => Requested(o) \cap {"rhofold", "protenix"} # {})}

NoFiles == [msa |-> FALSE, dot |-> FALSE, scores |-> FALSE,
            pdbs |-> [p \in PREDICTOR_CLASSES |-> 0]]

NoResults == [p \in PredNames |-> None]

\* departures used up, were mm the environment
FaultsIn(mm) ==
    Cardinality({s \in Sites : IsFault(mm[s])}) + Deviations(opts) + ext

\* The collaborator at site s may do o: what it did before in this
\* environment, or something new within the bound.
DoesIn(mm, s, o) ==
    IF mm[s] # Unset THEN o = mm[s]
    ELSE IsFault(o) => FaultsIn(mm) < MaxFaults

Does(s, o) == DoesIn(memo, s, o)

\* positions of the control thread: inside run(), and after it ended
Running == {"constructed", "stage1", "stage2", "stage3", "stage3b", "stage4",
            "stage5"}

Ended == {"new", "done", "aborted", "error"}

\* run()'s frame is gone once it returned or raised
DropLocals ==
    /\ idx' = 1
    /\ msa_path' = FALSE
    /\ ss_result' = "None"
    /\ predictor_results' = NoResults
    /\ ensemble_result' = 0
    /\ scoring_result' = "None"
    /\ pdb_files' = {}

\* no dispatch under way
DispatchOff ==
    /\ dpc = "off"
    /\ call = <<>>
    /\ parts = <<>>
    /\ futures = <<>>
    /\ gpu_results = <<>>
    /\ merged = <<>>
    /\ invoked = <<>>

\* no call of cluster_structures under way
EnsembleOff ==
    /\ epc = "off"
    /\ cands = <<>>
    /\ cutoff = 0
    /\ rmsd_matrix = <<>>
    /\ rmsd_safe = <<>>
    /\ clusters = <<>>

\* a fresh output directory, and no Pipeline constructed yet
NothingRun ==
    /\ state_file = EmptyState
    /\ state = EmptyState
    /\ pc = "new"
    /\ runs = 0
    /\ fs = NoFiles
    /\ idx = 1
    /\ msa_path = FALSE
    /\ ss_result = "None"
    /\ predictor_results = NoResults
    /\ ensemble_result = 0
    /\ scoring_result = "None"
    /\ pdb_files = {}
    /\ work = {}
    /\ loaded = EmptyState
    /\ memo = [s \in Sites |-> Unset]
    /\ ext = 0
    /\ steady = FALSE
    /\ twice = FALSE
    /\ marks = <<>>

Init ==
    /\ DispatchOff
    /\ EnsembleOff
    /\ opts \in Options
    /\ NothingRun

\* Pipeline.__init__
Construct ==
    /\ pc \in Ended
    /\ runs < MaxRuns
    /\ runs' = runs + 1
    /\ state' = LoadState(state_file)
    /\ loaded' = LoadState(state_file)
    /\ pc' = "constructed"
    /\ work' = {}
    /\ marks' = <<>>
    /\ twice' = (steady /\ runs >= 1)
    /\ steady' = TRUE
    /\ UNCHANGED <<state_file, opts, dvars, evars, fs, locals, memo, ext>>

\* run() without the check for an empty record list
AfterReadFastaUnchecked(records) == "stage1"

\* run(), up to the check of the records read
AfterReadFasta(records) == IF records = 0 THEN "error" ELSE "stage1"

ReadInput ==
    /\ pc = "constructed"
    /\ pc' = AfterReadFasta(opts.records)
    /\ UNCHANGED <<state_file, state, marks, runs, opts, dvars, evars, fs, locals, work, loaded,
                   memo, ext, steady, twice>>

(* ------------------------------ stages -------------------------------- *)

\* run() with the scoring call placed ahead of the clustering call
AfterScoringFirst(stage) ==
    CASE stage = "stage1"  -> "stage2"
      [] stage = "stage2"  -> "stage3"
      [] stage = "stage3"  -> "stage4"
      [] stage = "stage4"  -> "stage3b"
      [] stage = "stage3b" -> "stage5"
      [] stage = "stage5"  -> "done"

\* run(): the call that follows each stage's call
After(stage) ==
    CASE stage = "stage1"  -> "stage2"
      [] stage = "stage2"  -> "stage3"
      [] stage = "stage3"  -> "stage3b"
      [] stage = "stage3b" -> "stage4"
      [] stage = "stage4"  -> "stage5"
      [] stage = "stage5"  -> "done"

\* self._mark(stage, status): assign, then rewrite the file
MarkStage(stage, status) ==
    /\ state' = Mark(state, stage, status)
    /\ state_file' = SaveState(Mark(state, stage, status), state_file)
    /\ marks' = Append(marks, stage)

Record(s, o) == memo' = [memo EXCEPT ![s] = o]

\* "nohit": cmscan ran, but no family was found or no MSA could be built
InfernalOutcomes ==
    {Outcome("unavail", 0), Outcome("fail", 0), Outcome("raise", 0),
     Outcome("nohit", 0), Outcome("ok", 1)}

\* _run_stage1: the status written once check() has been consulted
Stage1Status(o) == IF o.k = "unavail" THEN "skipped" ELSE "completed"

\* the exception leaves run(): nothing is marked, the frame is dropped
Raise ==
    /\ pc' = "aborted"
    /\ DropLocals
    /\ UNCHANGED <<state, state_file, marks>>

\* _run_stage1, called unless skip_infernal
Stage1 ==
    /\ pc = "stage1"
    /\ IF opts.skip_infernal
       THEN /\ pc' = After("stage1")
            /\ UNCHANGED <<state, state_file, marks, locals, fs, work, memo>>
       ELSE IF Completed(state, "stage1")
       THEN /\ msa_path' = fs.msa
            /\ pc' = After("stage1")
            /\ UNCHANGED <<state, state_file, marks, fs, work, memo, idx, ss_result,
                           predictor_results, ensemble_result, scoring_result, pdb_files>>
       ELSE \E o \in InfernalOutcomes :
            /\ Does("infernal", o)
            /\ Record("infernal", o)
            /\ work' = work \cup {"stage1"}
            /\ IF o.k = "raise"
               THEN Raise /\ UNCHANGED fs
               ELSE /\ MarkStage("stage1", Stage1Status(o))
                    /\ msa_path' = (o.k = "ok")
                    /\ fs' = [fs EXCEPT !.msa = @ \/ o.k = "ok"]
                    /\ pc' = After("stage1")
                    /\ UNCHANGED <<idx, ss_result, predictor_results,
                                   ensemble_result, scoring_result, pdb_files>>
    /\ UNCHANGED <<runs, opts, dvars, evars, loaded, ext, steady, twice>>

ToolOutcomes ==
    {Outcome("unavail", 0), Outcome("fail", 0), Outcome("raise", 0),
     Outcome("ok", 0)}

\* SPOT-RNA changes nothing the orchestrator keeps, unless its call raises
SpotOutcomes == {Outcome("unavail", 0), Outcome("raise", 0), Outcome("ok", 0)}

\* _run_stage2: the status written once check() has been consulted
Stage2Status(o) == IF o.k = "unavail" THEN "skipped" ELSE "completed"

\* _run_stage2
Stage2 ==
    /\ pc = "stage2"
    /\ IF Completed(state, "stage2")
       THEN /\ ss_result' = IF fs.dot THEN "ok" ELSE "None"
            /\ pc' = After("stage2")
            /\ UNCHANGED <<state, state_file, marks, fs, work, memo, idx, msa_path,
                           predictor_results, ensemble_result, scoring_result, pdb_files>>
       ELSE \E o \in ToolOutcomes, sp \in SpotOutcomes :
            /\ Does("rnafold", o)
            /\ work' = work \cup {"stage2"}
            /\ IF o.k \in {"unavail", "raise"} \/ ~opts.run_spotrna
               THEN /\ Record("rnafold", o)
                    /\ sp = Outcome("ok", 0)
               ELSE /\ DoesIn([memo EXCEPT !["rnafold"] = o], "spotrna", sp)
                    /\ memo' = [memo EXCEPT !["rnafold"] = o, !["spotrna"] = sp]
            /\ fs' = [fs EXCEPT !.dot = @ \/ o.k = "ok"]
            /\ IF o.k = "raise" \/ sp.k = "raise"
               THEN Raise
               ELSE /\ MarkStage("stage2", Stage2Status(o))
                    /\ ss_result' = IF o.k = "unavail" THEN "None"
                                    ELSE IF o.k = "ok" THEN "ok" ELSE "fail"
                    /\ pc' = After("stage2")
                    /\ UNCHANGED <<idx, msa_path, predictor_results,
                                   ensemble_result, scoring_result, pdb_files>>
    /\ UNCHANGED <<runs, opts, dvars, evars, loaded, ext, steady, twice>>

\* the branch of _run_stage3 that runs pred_name
Branch(pred_name, nstruct) ==
    IF pred_name = "rhofold" /\ nstruct > 1 THEN "ensemble"
    ELSE IF pred_name = "protenix" THEN "protenix"
    ELSE IF pred_name = "simrna" THEN "simrna"
    ELSE "single"

\* What the collaborator behind pred_name can do, as the orchestrator sees
\* it: for SimRNA the n of "ok" is the number of PDB files extracted.
PredOutcomes(pred_name, nstruct, devices) ==
    {Outcome("unavail", 0)} \cup
    CASE Branch(pred_name, nstruct) = "ensemble" ->
            IF Max(devices, 1) <= 1 THEN SingleOutcomes(nstruct)
            ELSE DispatchOutcomes(SeedList(0, nstruct), Max(devices, 1))
      [] Branch(pred_name, nstruct) = "protenix" ->
            IF devices <= 1 THEN SingleOutcomes(nstruct)
            ELSE DispatchOutcomes(SeedList(ProtenixSeedBase, nstruct), devices)
      [] Branch(pred_name, nstruct) = "simrna" ->
            {Outcome("fail", 0), Outcome("raise", 0), Outcome("ok", MaxFiles)}
                \cup {Outcome("partial", m) : m \in 1..(MaxFiles - 1)}
      [] OTHER ->
            {Outcome("fail", 0), Outcome("raise", 0), Outcome("ok", 1)}

\* The ToolResult handed back to _run_stage3.  _run_rhofold_ensemble,
\* _run_protenix and _run_simrna answer an unavailable tool with a failed
\* result; SimRNATool.run keeps pdb_files[:clustering_top_n].
ResultOf(pred_name, o, top_n) ==
    IF ~Succeeded(o) THEN ToolResult(FALSE, 0)
    ELSE IF pred_name = "simrna"
         THEN ToolResult(Min(o.n, top_n) > 0, Min(o.n, top_n))
         ELSE ToolResult(TRUE, o.n)

\* "completed" whatever the result says
ResultStatusCompleted(success) == "completed"

\* "completed" if result.success else "failed"
ResultStatus(success) == IF success THEN "completed" ELSE "failed"

\* "break" where the loop says "continue"
Break(i, n) == n + 1

\* _run_stage3: "continue", on to the next of the n requested predictors
Continue(i, n) == i + 1

\* _run_stage3: one iteration of "for pred_name in predictors"
Stage3Iter ==
    /\ pc = "stage3"
    /\ idx <= Len(opts.predictors)
    /\ LET pred_name == opts.predictors[idx]
           stage_key == Stage3Key(pred_name)
       IN IF Completed(state, stage_key)
          THEN /\ predictor_results' =
                    IF pred_name \in PREDICTOR_CLASSES /\ fs.pdbs[pred_name] > 0
                    THEN [predictor_results EXCEPT
                            ![pred_name] = ToolResult(TRUE, fs.pdbs[pred_name])]
                    ELSE predictor_results
               /\ idx' = Continue(idx, Len(opts.predictors))
               /\ UNCHANGED <<state, state_file, marks, pc, fs, work, memo, msa_path,
                              ss_result, ensemble_result, scoring_result, pdb_files>>
          ELSE IF pred_name \notin PREDICTOR_CLASSES
          THEN /\ idx' = Continue(idx, Len(opts.predictors))
               /\ UNCHANGED <<state, state_file, marks, pc, fs, work, memo, msa_path,
                              ss_result, ensemble_result, scoring_result, pdb_files,
                              predictor_results>>
          ELSE \E o \in PredOutcomes(pred_name, opts.nstruct, opts.devices) :
               /\ Does(pred_name, o)
               /\ Record(pred_name, o)
               /\ work' = work \cup {stage_key}
               /\ IF o.k = "raise"
                  THEN Raise /\ UNCHANGED fs
                  ELSE IF o.k = "unavail" /\ Branch(pred_name, opts.nstruct) = "single"
                  THEN /\ MarkStage(stage_key, "skipped")
                       /\ idx' = Continue(idx, Len(opts.predictors))
                       /\ UNCHANGED <<pc, fs, predictor_results, msa_path,
                                      ss_result, ensemble_result, scoring_result, pdb_files>>
                  ELSE LET result == ResultOf(pred_name, o, opts.top_n)
                       IN /\ predictor_results' =
                                [predictor_results EXCEPT ![pred_name] = result]
                          /\ MarkStage(stage_key, ResultStatus(result.success))
                          /\ fs' = IF Succeeded(o)
                                   THEN [fs EXCEPT !.pdbs[pred_name] = o.n]
                                   ELSE fs
                          /\ idx' = idx + 1
                          /\ UNCHANGED <<pc, msa_path, ss_result,
                                         ensemble_result, scoring_result, pdb_files>>
    /\ UNCHANGED <<runs, opts, dvars, evars, loaded, ext, steady, twice>>

\* _run_stage3: "return results"
Stage3Return ==
    /\ pc = "stage3"
    /\ idx > Len(opts.predictors)
    /\ pc' = After("stage3")
    /\ UNCHANGED <<state_file, state, marks, runs, opts, dvars, evars, fs, locals, work, loaded,
                   memo, ext, steady, twice>>

RECURSIVE CountFiles(_, _)
\* _run_stage3b_clustering: len(all_pdbs), the files of the successful results
CountFiles(results, ps) ==
    IF ps = {} THEN 0
    ELSE LET p == CHOOSE x \in ps : TRUE
         IN (IF results[p].present /\ results[p].success THEN results[p].n ELSE 0)
                + CountFiles(results, ps \ {p})

\* run(): "if nstruct > 1 and predictor_results"
EntersClustering(nstruct, results) ==
    nstruct > 1 /\ \E p \in PredNames : results[p].present

\* cluster_structures returns k clusters, or raises (caught by the stage)
ClusterOutcomes(n) == {Outcome("raise", 0)} \cup {Outcome("ok", k) : k \in 1..n}

\* the completed stage hands back one cluster holding the files found again
AlreadyClusteredRebuilt(results) == 1

\* _run_stage3b_clustering, the stage found completed: "return None"
AlreadyClustered(results) == 0

\* run() and _run_stage3b_clustering
Stage3b ==
    /\ pc = "stage3b"
    /\ pc' = After("stage3b")
    /\ IF ~EntersClustering(opts.nstruct, predictor_results)
       THEN UNCHANGED <<state, state_file, marks, ensemble_result, work, memo>>
       ELSE IF Completed(state, "stage3b_clustering")
       THEN /\ ensemble_result' = AlreadyClustered(predictor_results)
            /\ UNCHANGED <<state, state_file, marks, work, memo>>
       ELSE LET n == CountFiles(predictor_results, PredNames)
            IN IF n < 2
               THEN /\ MarkStage("stage3b_clustering", "skipped")
                    /\ UNCHANGED <<ensemble_result, work, memo>>
               ELSE \E o \in ClusterOutcomes(n) :
                    /\ Does("cluster", Outcome(o.k, 0))
                    /\ Record("cluster", Outcome(o.k, 0))
                    /\ work' = work \cup {"stage3b_clustering"}
                    /\ MarkStage("stage3b_clustering",
                                 IF o.k = "ok" THEN "completed" ELSE "failed")
                    /\ ensemble_result' = IF o.k = "ok" THEN o.n ELSE 0
    /\ UNCHANGED <<runs, opts, dvars, evars, fs, idx, msa_path, ss_result, predictor_results,
                   scoring_result, pdb_files, loaded, ext, steady, twice>>

\* every structure of every successful predictor, clustered or not
CollectedAll(ensemble, results) ==
    {<<"structure", p, i>> : p \in {q \in PredNames : results[q].present /\ results[q].success},
                             i \in 1..MaxFiles}

\* _run_stage4: pdb_files, the representative of each cluster when there is
\* an ensemble result, else the primary structure of each successful predictor
Collected(ensemble, results) ==
    IF ensemble # 0
    THEN {<<"representative", c>> : c \in 1..ensemble}
    ELSE {<<"primary", p>> : p \in {q \in PredNames : results[q].present /\ results[q].success}}

\* _run_stage4: len(pdb_files), the cluster representatives when there is an
\* ensemble result, else the primary structure of each successful predictor
ToScore(ensemble, results) ==
    IF ensemble # 0 THEN ensemble
    ELSE Cardinality({p \in PredNames : results[p].present /\ results[p].success})

\* _run_stage4: the status written once check() has been consulted
Stage4Status(o) ==
    IF o.k = "unavail" THEN "skipped"
    ELSE IF o.k = "ok" THEN "completed" ELSE "failed"

\* _run_stage4, called unless skip_scoring
Stage4 ==
    /\ pc = "stage4"
    /\ IF opts.skip_scoring
       THEN /\ pc' = After("stage4")
            /\ UNCHANGED <<state, state_file, marks, locals, fs, work, memo>>
       ELSE IF Completed(state, "stage4")
       THEN /\ scoring_result' = IF fs.scores THEN "ok" ELSE "None"
            /\ pc' = After("stage4")
            /\ UNCHANGED <<state, state_file, marks, fs, work, memo, idx, msa_path,
                           ss_result, predictor_results, ensemble_result,
                           pdb_files>>
       ELSE IF ToScore(ensemble_result, predictor_results) = 0
       THEN /\ MarkStage("stage4", "skipped")
            /\ pc' = After("stage4")
            /\ UNCHANGED <<locals, fs, work, memo>>
       ELSE \E o \in ToolOutcomes :
            /\ Does("rnadvisor", o)
            /\ Record("rnadvisor", o)
            /\ work' = work \cup {"stage4"}
            /\ IF o.k = "raise"
               THEN Raise /\ UNCHANGED fs
               ELSE /\ MarkStage("stage4", Stage4Status(o))
                    /\ scoring_result' = IF o.k = "unavail" THEN "None"
                                         ELSE IF o.k = "ok" THEN "ok" ELSE "fail"
                    /\ pdb_files' = Collected(ensemble_result, predictor_results)
                    /\ fs' = [fs EXCEPT !.scores = @ \/ o.k = "ok"]
                    /\ pc' = After("stage4")
                    /\ UNCHANGED <<idx, msa_path, ss_result, predictor_results,
                                   ensemble_result>>
    /\ UNCHANGED <<runs, opts, dvars, evars, loaded, ext, steady, twice>>

\* _run_stage5, after which run() returns: the report is generated whatever
\* the state says
Stage5 ==
    /\ pc = "stage5"
    /\ work' = work \cup {"stage5"}
    /\ MarkStage("stage5", "completed")
    /\ pc' = After("stage5")
    /\ DropLocals
    /\ UNCHANGED <<runs, opts, dvars, evars, fs, loaded, memo, ext, steady, twice>>

(* -------------------------- the environment --------------------------- *)

\* The process is killed between two steps; the file keeps what was saved.
Crash ==
    /\ pc \in Running \ {"constructed"}
    /\ runs < MaxRuns
    /\ FaultsIn(memo) < MaxFaults
    /\ ext' = ext + 1
    /\ pc' = "new"
    /\ DropLocals
    /\ steady' = FALSE
    /\ UNCHANGED <<state_file, state, marks, runs, opts, dvars, evars, fs, work, loaded, memo,
                   twice>>

\* Between two runs the tools are installed, removed or behave differently.
EnvChange ==
    /\ pc \in Ended
    /\ 0 < runs /\ runs < MaxRuns
    /\ memo # [s \in Sites |-> Unset]
    /\ ext' = ext + Cardinality({s \in Sites : IsFault(memo[s])})
    /\ memo' = [s \in Sites |-> Unset]
    /\ steady' = FALSE
    /\ UNCHANGED <<state_file, state, marks, pc, runs, opts, dvars, evars, fs, locals, work, loaded,
                   twice>>

\* Between two runs the stage outputs are deleted; the state file is kept.
FilesLost ==
    /\ pc \in Ended
    /\ 0 < runs /\ runs < MaxRuns
    /\ fs # NoFiles
    /\ FaultsIn(memo) < MaxFaults
    /\ ext' = ext + 1
    /\ fs' = NoFiles
    /\ steady' = FALSE
    /\ UNCHANGED <<state_file, state, marks, pc, runs, opts, dvars, evars, locals, work, loaded,
                   memo, twice>>

Next ==
    \/ Construct
    \/ ReadInput
    \/ Stage1
    \/ Stage2
    \/ Stage3Iter
    \/ Stage3Return
    \/ Stage3b
    \/ Stage4
    \/ Stage5
    \/ Crash
    \/ EnvChange
    \/ FilesLost

Spec == Init /\ [][Next]_vars

TypeOK ==
    /\ state \in [StageKeys -> Statuses \cup {NoEntry}]
    /\ state_file \in [StageKeys -> Statuses \cup {NoEntry}]
    /\ pc \in Running \cup Ended
    /\ marks \in Seq(StageKeys)

(* ----------------------- the dispatch, in detail ---------------------- *)

\* _run_rhofold_ensemble and _run_protenix followed step by step for one
\* predictor of stage 3: the single invocation for at most one device, or
\* what each partition is handed, the order in which the batches finish and
\* the merge of their results; then the status stage 3 records.

MaxSeeds == 3

MaxGpus == 3

\* device lists, given in ascending or descending order; the empty list
\* stands for no --devices option
DeviceLists ==
    UNION {{[i \in 1..m |-> i - 1], [i \in 1..m |-> m - i]} : m \in 0..MaxGpus}

Dispatchers == {"rhofold", "protenix"}

\* _run_rhofold_ensemble is called for nstruct > 1 only
Calls ==
    {c \in [pred : Dispatchers, nstruct : 1..MaxSeeds, devices : DeviceLists] :
        c.pred = "rhofold" => c.nstruct > 1}

\* all_seeds = list(range(nstruct)) / seeds = list(range(42, 42 + nstruct))
SeedsOf(c) ==
    SeedList(IF c.pred = "protenix" THEN ProtenixSeedBase ELSE 0, c.nstruct)

\* every batch bound to the first device of the list
DeviceOfFirst(devices, g) == devices[1]

\* _run_gpu_batch / _run_group: device = devices[gpu_idx], with g = gpu_idx + 1
DeviceOf(devices, g) == devices[g]

\* the single invocation given a per-device directory as well
WorkDirPerDevice(pred, g) == <<pred, "gpu", Max(g - 1, 0)>>

\* the directory of an invocation: <pred_dir>/<pred> for the single
\* invocation (g = 0), <pred_dir>/<pred>/gpu_<gpu_idx> for partition g
WorkDir(pred, g) == IF g = 0 THEN <<pred>> ELSE <<pred, "gpu", g - 1>>

\* BaseTool._run_cmd: logs_dir / "<name>.stdout" and "<name>.stderr", with
\* logs_dir the pipeline's one logs directory
LogFile(pred, stream) == <<"logs", pred, stream>>

\* the places the invocation of partition g writes
WriteLocations(pred, g) ==
    {WorkDir(pred, g), LogFile(pred, "stdout"), LogFile(pred, "stderr")}

\* the structure file left for one seed: under gpu_<gpu_idx> for partition
\* g, under no such directory (-1) for the single invocation
Artifact(g, seed) == <<g - 1, seed>>

\* the mean confidences one run can have, in percent
PlddtValues == {60, 90}

\* the values the ranking score of a Protenix confidence file can have
ConfidenceValues == {1, 2}

\* ProtenixTool.run: metrics, the content of the first confidence file found,
\* a dict written as its set of <<key, value>> items; {} when there is none
\* or it cannot be read
Confidences == {{}} \cup {{<<"ranking_score", v>>} : v \in ConfidenceValues}

RECURSIVE SeqsUpTo(_, _)
\* the lists over vals of length at most n
SeqsUpTo(vals, n) ==
    IF n = 0 THEN {<<>>}
    ELSE SeqsUpTo(vals, n - 1)
            \cup {Append(q, v) : q \in {x \in SeqsUpTo(vals, n - 1) : Len(x) = n - 1},
                                 v \in vals}

\* What tool.run_batch / tool.run of invocation g can come to: it raises (a
\* timeout in run_cmd), or it returns a ToolResult: failed with a message,
\* failed without one (ProtenixTool.run: exit code 0 and no structure file
\* found), or successful with the files of all or of the first few of its
\* seeds and, for RhoFold+, the confidences of however many runs left them.
RunResults(pred, g, seeds) ==
    LET Returned(ok, files, msg, plddt, conf) ==
            [part |-> g, raised |-> FALSE, success |-> ok, all_pdbs |-> files,
             error_message |-> msg, plddt_per_run |-> plddt, metrics |-> conf]
        Files(k) == [i \in 1..k |-> Artifact(g, seeds[i])]
    IN {[part |-> g, raised |-> TRUE, success |-> FALSE, all_pdbs |-> <<>>,
         error_message |-> "", plddt_per_run |-> <<>>, metrics |-> {}]}
        \cup {Returned(TRUE, Files(k), "", q, {}) :
                k \in 1..Len(seeds),
                q \in IF pred = "rhofold" THEN SeqsUpTo(PlddtValues, Len(seeds))
                      ELSE {}}
        \cup {Returned(TRUE, Files(k), "", <<>>, c) :
                k \in 1..Len(seeds),
                c \in IF pred = "protenix" THEN Confidences ELSE {}}
        \cup {Returned(FALSE, <<>>, "failed", <<>>, {})}
        \cup (IF pred = "protenix"
              THEN {Returned(FALSE, <<>>, "", <<>>, c) : c \in Confidences}
              ELSE {})

NotAvailable(pred) ==
    IF pred = "rhofold" THEN "RhoFold+ not available" ELSE "Protenix not available"

\* What the batch of partition g can come to: _run_group answers a failed
\* tool.check() itself, the rest is the collaborator's.
BatchResults(pred, g, seeds) ==
    RunResults(pred, g, seeds)
        \cup (IF pred = "protenix"
              THEN {[part |-> g, raised |-> FALSE, success |-> FALSE,
                     all_pdbs |-> <<>>, error_message |-> NotAvailable(pred),
                     plddt_per_run |-> <<>>, metrics |-> {}]}
              ELSE {})

RECURSIVE ExtendFirst(_, _)
\* all_pdbs assigned, not extended: the files of one successful batch only
ExtendFirst(rs, i) ==
    IF i > Len(rs) THEN <<>>
    ELSE IF rs[i].success THEN rs[i].all_pdbs ELSE ExtendFirst(rs, i + 1)

RECURSIVE Extend(_, _)
\* the merge loop: all_pdbs.extend(pdbs) for each successful r, in list order
Extend(rs, i) ==
    IF i > Len(rs) THEN <<>>
    ELSE (IF rs[i].success THEN rs[i].all_pdbs ELSE <<>>) \o Extend(rs, i + 1)

RECURSIVE ExtendPlddt(_, _)
\* the merge loop: all_plddt.extend(per_run) for each successful r
ExtendPlddt(rs, i) ==
    IF i > Len(rs) THEN <<>>
    ELSE (IF rs[i].success THEN rs[i].plddt_per_run ELSE <<>>)
            \o ExtendPlddt(rs, i + 1)

\* metrics.update(other): the items of other, and those of metrics under
\* the keys other does not have
Update(metrics, other) ==
    other \cup {item \in metrics : \A o \in other : o[1] # item[1]}

RECURSIVE UpdateAll(_, _, _)
\* the merge loop: merged_metrics.update(r.metrics) for each successful r,
\* in list order, from position i on
UpdateAll(merged_metrics, rs, i) ==
    IF i > Len(rs) THEN merged_metrics
    ELSE UpdateAll(IF rs[i].success THEN Update(merged_metrics, rs[i].metrics)
                   ELSE merged_metrics, rs, i + 1)

RECURSIVE GCD(_, _)
GCD(a, b) == IF b = 0 THEN a ELSE GCD(b, a % b)

\* the quotient n / d as a number: the fraction in lowest terms
Quotient(n, d) == <<n \div GCD(n, d), d \div GCD(n, d)>>

RECURSIVE Sum(_, _)
\* sum(values), from position i on
Sum(values, i) == IF i > Len(values) THEN 0 ELSE values[i] + Sum(values, i + 1)

\* the mean of the batches' own means
MeanOfMeans(rs, all_plddt) ==
    LET own == {i \in DOMAIN rs : rs[i].success /\ rs[i].plddt_per_run # <<>>}
        Add(x, y) == Quotient(x[1] * y[2] + y[1] * x[2], x[2] * y[2])
        RECURSIVE Total(_)
        Total(is) ==
            IF is = {} THEN <<0, 1>>
            ELSE LET i == CHOOSE x \in is : TRUE
                 IN Add(Quotient(Sum(rs[i].plddt_per_run, 1), Len(rs[i].plddt_per_run)),
                        Total(is \ {i}))
    IN IF own = {} THEN <<>>
       ELSE Quotient(Total(own)[1], Total(own)[2] * Cardinality(own))

\* merged_metrics["plddt_mean"] = float(sum(all_plddt) / len(all_plddt)),
\* set only if all_plddt is not empty (<<>> stands for no such key); rs, the
\* results merged, play no part in it
PlddtMean(rs, all_plddt) ==
    IF all_plddt = <<>> THEN <<>>
    ELSE Quotient(Sum(all_plddt, 1), Len(all_plddt))

AllFailed(pred) ==
    IF pred = "rhofold" THEN "All RhoFold+ GPU batches failed"
    ELSE "All Protenix GPU runs failed"

\* the ToolResult of a failure answered with a message only
Failure(msg) ==
    [success |-> FALSE, pdb |-> <<>>, all_pdbs |-> <<>>, error_message |-> msg,
     plddt_mean |-> <<>>, plddt_per_run |-> <<>>, metrics |-> {}]

\* success only when no batch failed
MergeResultsStrict(pred, rs) ==
    IF \E i \in DOMAIN rs : ~rs[i].success
    THEN Failure(AllFailed(pred))
    ELSE [success |-> TRUE, pdb |-> Extend(rs, 1)[1], all_pdbs |-> Extend(rs, 1),
          error_message |-> "",
          plddt_mean |-> PlddtMean(rs, ExtendPlddt(rs, 1)),
          plddt_per_run |-> ExtendPlddt(rs, 1),
          metrics |-> UpdateAll({}, rs, 1)]

\* the ToolResult the dispatch returns
MergeResults(pred, rs) ==
    LET any_success == \E i \in DOMAIN rs : rs[i].success
        all_pdbs == Extend(rs, 1)
        all_plddt == ExtendPlddt(rs, 1)
    IN IF ~any_success
       THEN Failure(AllFailed(pred))
       ELSE [success |-> TRUE, pdb |-> all_pdbs[1], all_pdbs |-> all_pdbs,
             error_message |-> "",
             plddt_mean |-> PlddtMean(rs, all_plddt),
             plddt_per_run |-> all_plddt,
             metrics |-> UpdateAll({}, rs, 1)]

\* the ToolResult run_batch / run hands back, as the caller reads it
Handed(r) ==
    [success |-> r.success,
     pdb |-> IF r.all_pdbs = <<>> THEN <<>> ELSE r.all_pdbs[1],
     all_pdbs |-> r.all_pdbs, error_message |-> r.error_message,
     plddt_mean |-> PlddtMean(<<r>>, r.plddt_per_run),
     plddt_per_run |-> r.plddt_per_run,
     metrics |-> r.metrics]

\* the multi-device branch was taken: the seeds have been split
Split == parts # <<>>

\* ... and its merge has been made and returned
Merged == Split /\ dpc \in {"returned", "marked"}

\* the partitions whose result has been appended
Appended == {gpu_results[i].part : i \in DOMAIN gpu_results}

DefaultOptions ==
    [predictors |-> <<>>, nstruct |-> 1, devices |-> 0, skip_infernal |-> FALSE,
     run_spotrna |-> FALSE, skip_scoring |-> FALSE, records |-> 1,
     top_n |-> DefaultTopN]

DInit ==
    /\ NothingRun
    /\ EnsembleOff
    /\ opts = DefaultOptions
    /\ dpc = "called"
    /\ call \in Calls
    /\ parts = <<>>
    /\ futures = <<>>
    /\ gpu_results = <<>>
    /\ merged = <<>>
    /\ invoked = <<>>

\* n_gpus = max(len(devices), 1); _run_protenix tests len(devices) <= 1
n_gpus(devices) == Max(Len(devices), 1)

\* the availability check ahead of everything in _run_rhofold_ensemble, and
\* ahead of the single invocation in _run_protenix
Unavailable ==
    /\ dpc = "called"
    /\ call.pred = "protenix" => n_gpus(call.devices) <= 1
    /\ merged' = Failure(NotAvailable(call.pred))
    /\ dpc' = "returned"
    /\ UNCHANGED <<call, parts, futures, gpu_results, invoked, pvars, evars>>

\* at most one device: one invocation with all seeds, made by the caller
RunSingle ==
    /\ dpc = "called"
    /\ n_gpus(call.devices) <= 1
    /\ invoked' = <<[seeds |-> SeedsOf(call),
                     device |-> IF call.devices = <<>> THEN "config"
                                ELSE DeviceOf(call.devices, 1),
                     work_dir |-> WorkDir(call.pred, 0)]>>
    /\ \E r \in RunResults(call.pred, 0, SeedsOf(call)) :
            IF r.raised
            THEN /\ dpc' = "raised"
                 /\ UNCHANGED merged
            ELSE /\ merged' = Handed(r)
                 /\ dpc' = "returned"
    /\ UNCHANGED <<call, parts, futures, gpu_results, pvars, evars>>

\* seeds split round-robin; one batch submitted per non-empty group
Submit ==
    /\ dpc = "called"
    /\ n_gpus(call.devices) > 1
    /\ dpc' = "running"
    /\ LET gs == seed_groups(SeedsOf(call), n_gpus(call.devices))
       IN /\ parts' = gs
          /\ futures' = [g \in Submitted(gs) |->
                            [seeds |-> gs[g],
                             device |-> DeviceOf(call.devices, g),
                             work_dir |-> WorkDir(call.pred, g),
                             writes |-> WriteLocations(call.pred, g)]]
    /\ UNCHANGED <<call, gpu_results, merged, invoked, pvars, evars>>

\* as_completed yields a batch that finished; future.result() hands back
\* its ToolResult or re-raises what it raised
Finish ==
    /\ dpc = "running"
    /\ \E g \in (DOMAIN futures) \ Appended :
       \E r \in BatchResults(call.pred, g, futures[g].seeds) :
            IF r.raised
            THEN /\ dpc' = "raised"
                 /\ UNCHANGED gpu_results
            ELSE /\ gpu_results' = Append(gpu_results, r)
                 /\ UNCHANGED dpc
    /\ UNCHANGED <<call, parts, futures, merged, invoked, pvars, evars>>

\* every batch has returned: merge and return
Return ==
    /\ dpc = "running"
    /\ Appended = DOMAIN futures
    /\ merged' = MergeResults(call.pred, gpu_results)
    /\ dpc' = "returned"
    /\ UNCHANGED <<call, parts, futures, gpu_results, invoked, pvars, evars>>

\* _run_stage3 with the result in hand: results[pred_name] = result, then
\* the status of stage3_<pred_name>
Stage3Mark ==
    /\ dpc = "returned"
    /\ dpc' = "marked"
    /\ predictor_results' =
            [predictor_results EXCEPT
                ![call.pred] = ToolResult(merged.success, Len(merged.all_pdbs))]
    /\ MarkStage(Stage3Key(call.pred), ResultStatus(merged.success))
    /\ UNCHANGED <<pc, runs, opts, fs, idx, msa_path, ss_result, ensemble_result,
                   scoring_result, work, loaded, memo, ext, steady, twice,
                   pdb_files>>
    /\ UNCHANGED <<call, parts, futures, gpu_results, merged, invoked, evars>>

DNext ==
    \/ Unavailable
    \/ RunSingle
    \/ Submit
    \/ Finish
    \/ Return
    \/ Stage3Mark

DispatchSpec == DInit /\ [][DNext]_vars

(* -------------------------- ensemble analysis ------------------------- *)

\* cluster_structures followed for one call: the pairwise RMSD matrix, the
\* matrix handed to the hierarchical clustering, and the cluster list.

MaxCands == 3

\* float("inf"), which no distance and no cutoff below is
Inf == -1

\* np.isfinite
IsFinite(x) == x # Inf

\* the backbone atoms a structure file yields: none (the file cannot be
\* parsed, or has no C3'/P atom), too few to superimpose, or enough
Points == {0, 2, 3}

\* the RMSD a superposition can give
RmsdValues == {0, 3}

Cutoffs == {0, 2, Inf}

Tags == {"rhofold", "simrna"}

\* pdb_files with predictor_labels as _run_stage3b_clustering collects them: the
\* structures of one predictor after those of another
CandidateLists ==
    {c \in UNION {[1..n -> [points : Points, label : Tags]] : n \in 0..MaxCands} :
        \A i \in 1..(Len(c) - 1) : c[i].label = "simrna" => c[i + 1].label = "simrna"}

\* the pairs i < j of range(n)
Pairs(n) == {p \in (1..n) \X (1..n) : p[1] < p[2]}

\* what Superimposer.set_atoms can come to for each pair: it raises, or
\* sup.rms is read
SupOutcomes(n) ==
    [Pairs(n) -> {[raised |-> TRUE, rms |-> 0]}
                    \cup {[raised |-> FALSE, rms |-> v] : v \in RmsdValues}]

\* the entry of a pair whatever the number of common atoms
PairRmsdUnchecked(ci, cj, s) ==
    IF ci = 0 THEN Inf
    ELSE IF cj = 0 THEN Inf
    ELSE IF s.raised THEN Inf ELSE s.rms

\* the body of the loop over i < j: ci, cj the numbers of atoms of the two
\* structures, s what the superposition comes to
PairRmsd(ci, cj, s) ==
    IF ci = 0 THEN Inf
    ELSE IF cj = 0 THEN Inf
    ELSE IF Min(ci, cj) < 3 THEN Inf
    ELSE IF s.raised THEN Inf ELSE s.rms

\* np.zeros((n, n)), then rmsd_matrix[i, j] = rmsd_matrix[j, i] = ... for i < j
compute_pairwise_rmsd(files, sup) ==
    [p \in (1..Len(files)) \X (1..Len(files)) |->
        IF p[1] = p[2] THEN 0
        ELSE LET i == Min(p[1], p[2])
                 j == Max(p[1], p[2])
             IN PairRmsd(files[i].points, files[j].points, sup[<<i, j>>])]

FallbackMax == 100

RECURSIVE MaxOf(_)
MaxOf(xs) ==
    LET x == CHOOSE y \in xs : TRUE
    IN IF xs = {x} THEN x ELSE Max(x, MaxOf(xs \ {x}))

\* np.max(rmsd_matrix[np.isfinite(rmsd_matrix)]) if np.any(np.isfinite(
\* rmsd_matrix)) else 100.0
finite_max(D) ==
    IF \E p \in DOMAIN D : IsFinite(D[p])
    THEN MaxOf({D[p] : p \in {q \in DOMAIN D : IsFinite(D[q])}})
    ELSE FallbackMax

\* np.where(np.isfinite(rmsd_matrix), rmsd_matrix, finite_max * 2)
Safe(D) ==
    [p \in DOMAIN D |-> IF IsFinite(D[p]) THEN D[p] ELSE finite_max(D) * 2]

RECURSIVE SumOver(_, _)
\* the sum of D over a set of pairs
SumOver(D, ps) ==
    IF ps = {} THEN 0
    ELSE LET p == CHOOSE q \in ps : TRUE
         IN D[p] + SumOver(D, ps \ {p})

\* no two structures ever joined
Unlinked(D, cs, t) == cs

\* linkage(condensed, method="average") and fcluster(Z, t=cutoff,
\* criterion="distance"): the two clusters of least average distance are
\* joined for as long as that distance is at most t; cs is the set of
\* clusters so far, each a set of indexes
RECURSIVE Linkage(_, _, _)
Linkage(D, cs, t) ==
    IF Cardinality(cs) < 2 THEN cs
    ELSE LET couples == {ab \in cs \X cs : ab[1] # ab[2]}
             Total(ab) == SumOver(D, ab[1] \X ab[2])
             Size(ab) == Cardinality(ab[1]) * Cardinality(ab[2])
             least == CHOOSE ab \in couples :
                        \A cd \in couples :
                            Total(ab) * Size(cd) <= Total(cd) * Size(ab)
         IN IF IsFinite(t) /\ Total(least) > t * Size(least) THEN cs
            ELSE Linkage(D, (cs \ {least[1], least[2]}) \cup {least[1] \cup least[2]}, t)

\* the ways fcluster can number k flat clusters 1..k
Numberings(cs) ==
    {f \in [1..Cardinality(cs) -> cs] : \A a, b \in DOMAIN f : a # b => f[a] # f[b]}

RECURSIVE Descending(_)
\* the indexes of a set, the largest first
Descending(is) ==
    IF is = {} THEN <<>>
    ELSE LET m == CHOOSE x \in is : \A y \in is : x >= y
         IN <<m>> \o Descending(is \ {m})

RECURSIVE Ascending(_)
\* the indexes of a set, in ascending order
Ascending(is) ==
    IF is = {} THEN <<>>
    ELSE LET m == CHOOSE x \in is : \A y \in is : x <= y
         IN <<m>> \o Ascending(is \ {m})

\* float(np.mean(sub_rmsds)) over the pairs a < b of the cluster, 0.0 for a
\* single member, as a fraction; a mean over an infinite entry is infinite,
\* written <<1, 0>>
MeanRmsd(D, is) ==
    LET ps == {p \in is \X is : p[1] < p[2]}
    IN IF ps = {} THEN <<0, 1>>
       ELSE IF \E p \in ps : ~IsFinite(D[p]) THEN <<1, 0>>
       ELSE Quotient(SumOver(D, ps), Cardinality(ps))

\* the first member, whatever the distances
RepresentativeFirst(D, is) == CHOOSE i \in is : \A j \in is : i <= j

\* the member of least mean RMSD to the other members, the first of them
\* in input order (np.argmin); the only member of a single-member cluster
Representative(D, is) ==
    LET avg(i) == IF \E j \in is \ {i} : ~IsFinite(D[<<i, j>>]) THEN Inf
                  ELSE SumOver(D, {i} \X (is \ {i}))
        Leq(x, y) == IF ~IsFinite(y) THEN TRUE
                     ELSE IF ~IsFinite(x) THEN FALSE ELSE x <= y
        least == {i \in is : \A j \in is : Leq(avg(i), avg(j))}
    IN CHOOSE i \in least : \A j \in least : i <= j

\* consensus taken for "more than one member"
ClusterInfoBySize(files, D, cid, is) ==
    [cluster_id |-> cid,
     members |-> Ascending(is),
     member_predictors |-> [k \in 1..Cardinality(is) |-> files[Ascending(is)[k]].label],
     representative |-> Representative(D, is),
     mean_rmsd |-> MeanRmsd(D, is),
     is_consensus |-> Cardinality(is) >= 2]

\* one ClusterInfo
ClusterInfo(files, D, cid, is) ==
    [cluster_id |-> cid,
     members |-> Ascending(is),
     member_predictors |-> [k \in 1..Cardinality(is) |-> files[Ascending(is)[k]].label],
     representative |-> Representative(D, is),
     mean_rmsd |-> MeanRmsd(D, is),
     is_consensus |-> Cardinality({files[i].label : i \in is}) >= 2]

RECURSIVE SortBySizeReversed(_)
\* sorted by size ascending and then reversed: equal sizes change places
SortBySizeReversed(cl) ==
    IF cl = <<>> THEN <<>>
    ELSE LET first == CHOOSE k \in DOMAIN cl :
                        /\ \A m \in DOMAIN cl : Len(cl[k].members) >= Len(cl[m].members)
                        /\ \A m \in (k + 1)..Len(cl) : Len(cl[m].members) < Len(cl[k].members)
             rest == [m \in 1..(Len(cl) - 1) |-> IF m < first THEN cl[m] ELSE cl[m + 1]]
         IN <<cl[first]>> \o SortBySizeReversed(rest)

RECURSIVE SortBySize(_)
\* clusters.sort(key=lambda c: len(c.members), reverse=True): a stable
\* sort, of a list built in ascending cluster id
SortBySize(cl) ==
    IF cl = <<>> THEN <<>>
    ELSE LET first == CHOOSE k \in DOMAIN cl :
                        /\ \A m \in DOMAIN cl : Len(cl[k].members) >= Len(cl[m].members)
                        /\ \A m \in 1..(k - 1) : Len(cl[m].members) < Len(cl[k].members)
             rest == [m \in 1..(Len(cl) - 1) |-> IF m < first THEN cl[m] ELSE cl[m + 1]]
         IN <<cl[first]>> \o SortBySize(rest)

\* n <= 1 answered with no cluster at all
TrivialClustersEmpty(files) == <<>>

\* clusters = [], and for n == 1 the one ClusterInfo appended to it
TrivialClusters(files) ==
    [k \in 1..Len(files) |-> ClusterInfo(files, <<>>, 1, {1})]

EInit ==
    /\ NothingRun
    /\ opts = DefaultOptions
    /\ DispatchOff
    /\ epc = "called"
    /\ cands \in CandidateLists
    /\ cutoff \in Cutoffs
    /\ rmsd_matrix = <<>>
    /\ rmsd_safe = <<>>
    /\ clusters = <<>>

\* n <= 1: the trivial result, without any distance computed
Trivial ==
    /\ epc = "called"
    /\ Len(cands) <= 1
    /\ clusters' = TrivialClusters(cands)
    /\ rmsd_matrix' = [p \in (1..Len(cands)) \X (1..Len(cands)) |-> 0]
    /\ epc' = "returned"
    /\ UNCHANGED <<cands, cutoff, rmsd_safe, pvars, dvars>>

\* compute_pairwise_rmsd(pdb_files)
PairwiseRmsd ==
    /\ epc = "called"
    /\ Len(cands) > 1
    /\ \E sup \in SupOutcomes(Len(cands)) :
            rmsd_matrix' = compute_pairwise_rmsd(cands, sup)
    /\ epc' = "rmsd"
    /\ UNCHANGED <<cands, cutoff, rmsd_safe, clusters, pvars, dvars>>

\* the rest of cluster_structures: the safe matrix, the flat clusters with
\* the numbers fcluster gives them, a ClusterInfo for each in ascending
\* number, and the sort by size
ClusterAndSort ==
    /\ epc = "rmsd"
    /\ rmsd_safe' = Safe(rmsd_matrix)
    /\ \E numbered \in Numberings(Linkage(Safe(rmsd_matrix),
                                          {{i} : i \in 1..Len(cands)}, cutoff)) :
            clusters' = SortBySize([cid \in DOMAIN numbered |->
                                ClusterInfo(cands, rmsd_matrix, cid, numbered[cid])])
    /\ epc' = "returned"
    /\ UNCHANGED <<cands, cutoff, rmsd_matrix, pvars, dvars>>

ENext ==
    \/ Trivial
    \/ PairwiseRmsd
    \/ ClusterAndSort

EnsembleSpec == EInit /\ [][ENext]_vars

(* ------------------------------- claims ------------------------------- *)

\* the stage key written for what site s does
KeyOfSite(s) ==
    CASE s = "infernal"  -> "stage1"
      [] s = "rnafold"   -> "stage2"
      [] s = "rnadvisor" -> "stage4"
      [] OTHER           -> Stage3Key(s)

StageSites == {"infernal", "rnafold", "rnadvisor"} \cup PREDICTOR_CLASSES

\* site s was consulted in this run, and the run went on
Attempted(s) == pc \in Running /\ KeyOfSite(s) \in work

\* C1: a stage whose persisted status was completed when the Pipeline was
\* constructed has none of its work performed during that run.
C1_NoWorkOnCompleted ==
    \A k \in StageKeys : loaded[k] = "completed" => k \notin work

\* C2: once a stage key is completed, in memory or in the file, no step
\* changes it; a completed predictor or secondary-structure stage whose
\* files are gone at resume is passed over with no result and no work.
C2_CompletedIsFinal ==
    [][/\ \A k \in StageKeys :
            /\ state_file[k] = "completed" => state_file'[k] = "completed"
            /\ state[k] = "completed" => state'[k] = "completed"
       /\ (pc = "stage3" /\ idx <= Len(opts.predictors)) =>
            LET p == opts.predictors[idx]
            IN (p \in PREDICTOR_CLASSES /\ state[Stage3Key(p)] = "completed"
                    /\ fs.pdbs[p] = 0 /\ pc' = "stage3")
                => /\ ~predictor_results'[p].present
                   /\ Stage3Key(p) \notin work'
       /\ (pc = "stage2" /\ state["stage2"] = "completed" /\ ~fs.dot
                /\ pc' = "stage3")
            => (ss_result' = "None" /\ "stage2" \notin work')
      ]_vars

\* a resumed run has passed over a completed predictor whose files are gone
C2_Witness ==
    /\ pc = "stage3b"
    /\ \E i \in DOMAIN opts.predictors :
        LET p == opts.predictors[i]
        IN /\ p \in PREDICTOR_CLASSES
           /\ loaded[Stage3Key(p)] = "completed"
           /\ state_file[Stage3Key(p)] = "completed"
           /\ fs.pdbs[p] = 0
           /\ ~predictor_results[p].present

\* C3: when the orchestrator has moved past a stage it attempted, that
\* stage's key holds one of completed, skipped, failed, in memory and in
\* the file; so does the key of every requested predictor after stage 3.
C3_StatusAfterEachStage ==
    LET Has(k) == state[k] \in Statuses /\ state_file[k] \in Statuses
    IN /\ (pc \in {"stage2", "stage3", "stage3b", "stage4", "stage5"}
                /\ ~opts.skip_infernal) => Has("stage1")
       /\ pc \in {"stage3", "stage3b", "stage4", "stage5"} => Has("stage2")
       /\ pc \in {"stage3b", "stage4", "stage5"} =>
            \A i \in DOMAIN opts.predictors : Has(Stage3Key(opts.predictors[i]))
       /\ (pc = "stage5" /\ ~opts.skip_scoring) => Has("stage4")
       /\ pc = "done" => Has("stage5")

\* C4: a stage whose collaborator reported unavailable in this run is
\* marked skipped.
C4_UnavailableIsSkipped ==
    \A s \in StageSites :
        (Attempted(s) /\ memo[s].k = "unavail") => state[KeyOfSite(s)] = "skipped"

\* C5: a stage whose collaborator ran in this run and reported failure is
\* marked failed.
C5_FailureIsFailed ==
    \A s \in StageSites :
        (Attempted(s) /\ memo[s].k = "fail") => state[KeyOfSite(s)] = "failed"

\* C6: an iteration of stage 3 changes no key but its own predictor's, and
\* when the loop is left every requested predictor has been visited: each
\* known one has a status and was run in this run or found completed.
C6_PredictorsIndependent ==
    [][/\ (pc = "stage3" /\ idx <= Len(opts.predictors) /\ pc' \in {"stage3", "aborted"})
            => \A k \in StageKeys \ {Stage3Key(opts.predictors[idx])} :
                    state'[k] = state[k] /\ state_file'[k] = state_file[k]
       /\ (pc = "stage3" /\ pc' = "stage3b")
            => \A i \in DOMAIN opts.predictors :
                 LET k == Stage3Key(opts.predictors[i])
                 IN opts.predictors[i] \in PREDICTOR_CLASSES
                      => /\ state[k] \in Statuses
                         /\ (k \in work \/ loaded[k] = "completed")
      ]_vars

\* stage 3 was left with one predictor failed or skipped and another,
\* requested after it, completed in the same run
C6_Witness ==
    /\ pc = "stage3b"
    /\ \E i, j \in DOMAIN opts.predictors :
        /\ i < j
        /\ state[Stage3Key(opts.predictors[i])] \in {"failed", "skipped"}
        /\ Stage3Key(opts.predictors[i]) \in work
        /\ state[Stage3Key(opts.predictors[j])] = "completed"
        /\ Stage3Key(opts.predictors[j]) \in work

\* C7: with an input that has a record, no collaborator outcome aborts the
\* run.
C7_NeverAborts ==
    opts.records >= 1 => pc # "aborted"

C9_SecondRunSameState ==
    (pc \in {"done", "aborted", "error"} /\ twice /\ steady)
        => (state = loaded /\ state_file = loaded)

\* C10: the file holds the in-memory mapping whenever a stage begins, and
\* after a crash it holds every status written up to the crash.
C10_FileIsMemory ==
    state_file = state

\* a run was killed after some stages had been marked
C10_Witness ==
    /\ pc = "new"
    /\ runs >= 1
    /\ \E k \in StageKeys : state_file[k] # NoEntry
    /\ state_file["stage5"] = NoEntry

\* C11: no step removes a stage key from the persisted mapping, in the run
\* that wrote it or in any later run on the same output directory.
C11_KeysOnlyGrow ==
    [][\A k \in StageKeys : state_file[k] # NoEntry => state_file'[k] # NoEntry]_vars

\* a later run has written the file that already held keys of an earlier run
C11_Witness ==
    /\ runs >= 2
    /\ pc \in Running
    /\ \E k \in StageKeys : loaded[k] # NoEntry
    /\ state_file # loaded
    /\ \A k \in StageKeys : loaded[k] # NoEntry => state_file[k] # NoEntry

\* place of a stage key in the order of run() for the predictors requested:
\* stage1, stage2, the requested predictors' keys in order, clustering,
\* scoring, report; 0 for a key that is not part of this run
KeyRank(k) ==
    LET n == Len(opts.predictors)
    IN CASE k = "stage1" -> 1
         [] k = "stage2" -> 2
         [] k = "stage3b_clustering" -> n + 3
         [] k = "stage4" -> n + 4
         [] k = "stage5" -> n + 5
         [] OTHER -> IF \E i \in 1..n : Stage3Key(opts.predictors[i]) = k
                     THEN 2 + (CHOOSE i \in 1..n : Stage3Key(opts.predictors[i]) = k)
                     ELSE 0

\* the rank of the first key the stage at pc may still write
PcRank ==
    LET n == Len(opts.predictors)
    IN CASE pc = "constructed" -> 1
         [] pc = "stage1"  -> 1
         [] pc = "stage2"  -> 2
         [] pc = "stage3"  -> 2 + idx
         [] pc = "stage3b" -> n + 3
         [] pc = "stage4"  -> n + 4
         [] pc = "stage5"  -> n + 5
         [] OTHER          -> n + 6

\* C12: the keys written in one run appear in the order stage1, stage2, the
\* requested predictors in request order, clustering, scoring, report; and
\* every key written so far belongs to a stage that is over, so only the
\* stage at the control thread's position can still write.
C12_WritesInStageOrder ==
    /\ \A i \in DOMAIN marks : KeyRank(marks[i]) > 0
    /\ \A i, j \in DOMAIN marks : i < j => KeyRank(marks[i]) < KeyRank(marks[j])
    /\ \A i \in DOMAIN marks : KeyRank(marks[i]) < PcRank

\* a run with two predictors wrote the keys of all six stages
C12_Witness ==
    /\ pc = "done"
    /\ Len(opts.predictors) = 2
    /\ Len(marks) = 7

\* C13: in a run that did not find clustering completed, the clustering
\* engine has been invoked when stage 3b is over exactly if the successful
\* predictor results list two or more structures in total.
C13_ClusteringIffTwoCandidates ==
    (pc = "stage4" /\ loaded["stage3b_clustering"] # "completed")
        => ("stage3b_clustering" \in work
                <=> CountFiles(predictor_results, PredNames) >= 2)

\* C14: a first run with one predictor, no device list and one structure
\* produced reaches the report stage with the predictor's key completed,
\* the clustering key skipped, no clusters, and one structure collected
\* for the scorer.
C14_SingleCandidateRun ==
    (/\ pc = "stage5"
     /\ loaded = EmptyState
     /\ Len(opts.predictors) = 1
     /\ opts.devices = 0
     /\ CountFiles(predictor_results, PredNames) = 1)
        => /\ state[Stage3Key(opts.predictors[1])] = "completed"
           /\ state["stage3b_clustering"] = "skipped"
           /\ ensemble_result = 0
           /\ "stage4" \in work => Cardinality(pdb_files) = 1

\* C15: when the scorer has run, it was handed one representative per
\* cluster and nothing else if clustering completed in this run, and else
\* the primary structure of each predictor whose result is successful.
C15_ScoresRepresentatives ==
    (pc = "stage5" /\ "stage4" \in work /\ memo["rnadvisor"].k \in {"ok", "fail"})
        => IF "stage3b_clustering" \in work /\ state["stage3b_clustering"] = "completed"
           THEN /\ ensemble_result >= 1
                /\ pdb_files = {<<"representative", c>> : c \in 1..ensemble_result}
           ELSE pdb_files = {<<"primary", q>> : q \in
                    {p \in PredNames : predictor_results[p].present
                                        /\ predictor_results[p].success}}

\* the scorer ran on the one representative of a cluster of two structures
C15_Witness ==
    /\ pc = "stage5"
    /\ "stage4" \in work
    /\ memo["rnadvisor"].k = "ok"
    /\ "stage3b_clustering" \in work
    /\ CountFiles(predictor_results, PredNames) >= 2
    /\ pdb_files = {<<"representative", 1>>}

\* C16: with M > 1 devices the seed at index i is in partition i mod M, at
\* the place its turn gives it, so that each partition keeps the seeds'
\* order; the batch submitted for a partition gets that partition's seeds
\* and the device devices[i mod M]; for RhoFold and for Protenix alike.
\* (Indexes here start at 1: index i is place i + 1.)
C16_RoundRobinByIndex ==
    Split =>
        LET seeds == SeedsOf(call)
            M == Len(call.devices)
        IN /\ Len(parts) = M
           /\ \A p \in 1..Len(seeds) :
                LET g == ((p - 1) % M) + 1
                    k == ((p - 1) \div M) + 1
                IN k <= Len(parts[g]) /\ parts[g][k] = seeds[p]
           /\ \A g \in DOMAIN futures :
                /\ futures[g].seeds = parts[g]
                /\ futures[g].device = call.devices[g]

\* three Protenix seeds over the devices 1, 0: seeds 42 and 44 go to
\* device 1, seed 43 to device 0
C16_Witness ==
    /\ dpc = "running"
    /\ call.pred = "protenix"
    /\ call.devices = <<1, 0>>
    /\ parts = << <<42, 44>>, <<43>> >>
    /\ futures[1].seeds = <<42, 44>> /\ futures[1].device = 1
    /\ futures[2].seeds = <<43>> /\ futures[2].device = 0

\* C17: with N seeds and M devices every partition holds floor(N/M) or
\* ceil(N/M) seeds, and every seed is at exactly one place of exactly one
\* partition.
C17_PartitionFairness ==
    Split =>
        LET seeds == SeedsOf(call)
            N == Len(seeds)
            M == Len(call.devices)
        IN /\ DOMAIN parts = 1..M
           /\ \A g \in 1..M :
                Len(parts[g]) \in {N \div M, (N + M - 1) \div M}
           /\ \A p \in 1..N :
                Cardinality({gk \in (1..M) \X (1..N) :
                                /\ gk[2] <= Len(parts[gk[1]])
                                /\ parts[gk[1]][gk[2]] = seeds[p]}) = 1
           /\ \A g \in 1..M : \A k \in 1..Len(parts[g]) :
                \E p \in 1..N : parts[g][k] = seeds[p]

\* three seeds over two devices: partitions of two seeds and of one
C17_Witness ==
    /\ dpc = "running"
    /\ call.nstruct = 3
    /\ Len(call.devices) = 2
    /\ Len(parts[1]) = 2
    /\ Len(parts[2]) = 1

\* the ToolResult partition g's batch returned
ReturnedBy(g) ==
    gpu_results[CHOOSE i \in DOMAIN gpu_results : gpu_results[i].part = g]

\* the file of a structure, whatever list it stands in
FilesIn(list) == {list[i] : i \in DOMAIN list}

C19_MergedInPartitionOrder ==
    LET RECURSIVE InPartitionOrder(_)
        InPartitionOrder(g) ==
            IF g > Len(parts) THEN <<>>
            ELSE (IF g \in DOMAIN futures /\ ReturnedBy(g).success
                  THEN ReturnedBy(g).all_pdbs ELSE <<>>)
                        \o InPartitionOrder(g + 1)
    IN  (Merged /\ merged.success)
            => /\ merged.all_pdbs = InPartitionOrder(1)
               /\ merged.pdb = InPartitionOrder(1)[1]

C21_RaiseIsPartitionFailure ==
    Split => dpc # "raised"

\* C22: the batches of one dispatch that run at the same time never write
\* to the same place: the output directory and the collaborator's stdout
\* and stderr log files of one are none of another's.
C22_DisjointWrites ==
    dpc = "running" =>
        \A g, h \in (DOMAIN futures) \ Appended :
            g # h => futures[g].writes \cap futures[h].writes = {}

C24_SingleInvocation ==
    (Len(call.devices) <= 1 /\ dpc # "called") =>
        /\ parts = <<>>
        /\ futures = <<>>
        /\ gpu_results = <<>>
        /\ Len(invoked) <= 1
        /\ (dpc = "raised" \/ merged.error_message # NotAvailable(call.pred))
                => Len(invoked) = 1
        /\ \A n \in DOMAIN invoked :
            /\ Len(invoked[n].seeds) = call.nstruct
            /\ \A i \in 1..call.nstruct :
                    invoked[n].seeds[i] =
                        (IF call.pred = "protenix" THEN ProtenixSeedBase ELSE 0) + i - 1
            /\ invoked[n].work_dir = <<call.pred>>

\* Protenix asked for three structures on the one device 0: one invocation
\* with the seeds 42, 43, 44, which succeeded
C24_Witness ==
    /\ dpc = "returned"
    /\ call.pred = "protenix"
    /\ call.devices = <<0>>
    /\ Len(invoked) = 1
    /\ invoked[1].seeds = <<42, 43, 44>>
    /\ invoked[1].device = 0
    /\ merged.success

\* C25: a dispatch of N seeds over M > 1 devices starts exactly min(N, M)
\* batches, none of them for an empty partition, so that never more than M
\* run at a time, and it merges only when every batch it started has
\* finished.
C25_StartedAndJoined ==
    Split =>
        LET N == call.nstruct
            M == Len(call.devices)
            running == (DOMAIN futures) \ Appended
        IN /\ Cardinality(DOMAIN futures) = (IF N < M THEN N ELSE M)
           /\ \A g \in DOMAIN futures : futures[g].seeds # <<>>
           /\ Cardinality(running) <= M
           /\ Merged => (running = {} /\ Len(gpu_results) = Cardinality(DOMAIN futures))

\* two seeds over three devices: two batches were started, both finished,
\* and the merge was made
C25_Witness ==
    /\ Merged
    /\ call.nstruct = 2
    /\ Len(call.devices) = 3
    /\ DOMAIN futures = {1, 2}
    /\ Len(gpu_results) = 2

C27_MessageIffFailure ==
    /\ \A i \in DOMAIN gpu_results :
            gpu_results[i].error_message # "" <=> ~gpu_results[i].success
    /\ merged # <<>> => (merged.error_message # "" <=> ~merged.success)

\* C28: the matrix compute_pairwise_rmsd returns has a zero diagonal, is
\* symmetric, and is infinite at every pair of different candidates of
\* which one gave no backbone or which have fewer than 3 atoms in common.
C28_MatrixShape ==
    rmsd_matrix # <<>> =>
        \A i, j \in 1..Len(cands) :
            /\ rmsd_matrix[<<i, i>>] = 0
            /\ rmsd_matrix[<<i, j>>] = rmsd_matrix[<<j, i>>]
            /\ (/\ i # j
                /\ \E k \in {i, j} : cands[k].points < 3)
                    => rmsd_matrix[<<i, j>>] = Inf

\* of three candidates the second has two backbone atoms only: its distance
\* to the others is infinite, that between the first and the third is 3
C28_Witness ==
    /\ epc = "rmsd"
    /\ Len(cands) = 3
    /\ cands[1].points = 3 /\ cands[2].points = 2 /\ cands[3].points = 3
    /\ rmsd_matrix[<<1, 2>>] = Inf
    /\ rmsd_matrix[<<3, 2>>] = Inf
    /\ rmsd_matrix[<<1, 3>>] = 3
    /\ rmsd_matrix[<<3, 1>>] = 3

\* C29: the value cluster_structures puts in the place of an infinite
\* distance before the clustering is strictly greater than every finite
\* distance between two different candidates, so that no pair without a
\* distance counts as close as a pair with one.
C29_SubstituteIsFarthest ==
    rmsd_safe # <<>> =>
        \A p, q \in Pairs(Len(cands)) :
            (~IsFinite(rmsd_matrix[p]) /\ IsFinite(rmsd_matrix[q]))
                => rmsd_safe[p] > rmsd_matrix[q]

\* C30: of N >= 2 candidates whose distances from one another are all
\* greater than 0, the infinite ones among them, cluster_structures with
\* cutoff 0 returns N clusters of one member each.
C30_ZeroCutoffSingletons ==
    (/\ epc = "returned"
     /\ Len(cands) >= 2
     /\ cutoff = 0
     /\ \A p \in Pairs(Len(cands)) : ~IsFinite(rmsd_matrix[p]) \/ rmsd_matrix[p] > 0)
        => /\ Len(clusters) = Len(cands)
           /\ \A k \in DOMAIN clusters : Len(clusters[k].members) = 1

\* the candidates a returned cluster lists, as a set of input indexes
MembersOf(c) == {c.members[m] : m \in DOMAIN c.members}

\* C31: of N >= 1 candidates cluster_structures with an infinite cutoff
\* returns one cluster, and all N candidates are its members.
C31_InfiniteCutoffOneCluster ==
    (epc = "returned" /\ Len(cands) >= 1 /\ cutoff = Inf)
        => /\ Len(clusters) = 1
           /\ Len(clusters[1].members) = Len(cands)
           /\ MembersOf(clusters[1]) = 1..Len(cands)

\* three candidates, one of them without a backbone and the two others at
\* RMSD 3, came back as one cluster under an infinite cutoff
C31_Witness ==
    /\ epc = "returned"
    /\ cutoff = Inf
    /\ Len(cands) = 3
    /\ rmsd_matrix[<<1, 2>>] = 3
    /\ rmsd_matrix[<<1, 3>>] = Inf
    /\ Len(clusters) = 1

\* C32: a returned cluster is flagged as consensus exactly if its members
\* come from at least two different predictors.
C32_ConsensusIffTwoPredictors ==
    epc = "returned" =>
        \A k \in DOMAIN clusters :
            clusters[k].is_consensus
                <=> \E i, j \in MembersOf(clusters[k]) : cands[i].label # cands[j].label

\* three candidates in two clusters: one of two RhoFold+ structures, not
\* flagged, and one of a SimRNA structure alone
C32_Witness ==
    /\ epc = "returned"
    /\ Len(cands) = 3
    /\ cands[1].label = "rhofold" /\ cands[2].label = "rhofold"
    /\ cands[3].label = "simrna"
    /\ Len(clusters) = 2
    /\ MembersOf(clusters[1]) = {1, 2}
    /\ ~clusters[1].is_consensus

\* C33: the representative of a returned cluster of more than one member
\* is a member whose mean distance to the other members is least, and of
\* the members with that least mean the one earliest in the input; the
\* representative of a cluster of one member is that member.
C33_RepresentativeIsMedoid ==
    epc = "returned" =>
        \A k \in DOMAIN clusters :
            LET S == MembersOf(clusters[k])
                r == clusters[k].representative
                Far(i) == \E j \in S \ {i} : rmsd_matrix[<<i, j>>] = Inf
                Total(i) == SumOver(rmsd_matrix, {i} \X (S \ {i}))
                Leq(i, j) == Far(j) \/ (~Far(i) /\ Total(i) <= Total(j))
            IN /\ r \in S
               /\ \A j \in S : Leq(r, j)
               /\ \A j \in S : Leq(j, r) => r <= j

\* three candidates in one cluster, the first at RMSD 3 from the two
\* others, which are at RMSD 0 from each other: the second represents it
C33_Witness ==
    /\ epc = "returned"
    /\ Len(cands) = 3
    /\ Len(clusters) = 1
    /\ rmsd_matrix[<<1, 2>>] = 3
    /\ rmsd_matrix[<<1, 3>>] = 3
    /\ rmsd_matrix[<<2, 3>>] = 0
    /\ clusters[1].representative = 2

\* C34: the returned cluster list is in order of non-increasing number of
\* members, and clusters of the same number of members are in ascending
\* cluster id.
C34_SortedBySizeThenId ==
    epc = "returned" =>
        \A k, m \in DOMAIN clusters :
            k < m =>
                /\ Len(clusters[k].members) >= Len(clusters[m].members)
                /\ Len(clusters[k].members) = Len(clusters[m].members)
                        => clusters[k].cluster_id < clusters[m].cluster_id

\* three clusters of one member each come in the order of their ids 1, 2,
\* 3, which is not the order of their members in the input
C34_Witness ==
    /\ epc = "returned"
    /\ Len(clusters) = 3
    /\ clusters[1].cluster_id = 1 /\ clusters[1].members = <<3>>
    /\ clusters[2].cluster_id = 2 /\ clusters[2].members = <<1>>
    /\ clusters[3].cluster_id = 3 /\ clusters[3].members = <<2>>

\* C35: whatever the cutoff, cluster_structures returns no cluster for no
\* candidate, and for one candidate one cluster of which it is the only
\* member and the representative, with mean distance 0 and not flagged as
\* consensus.
C35_DegenerateInputs ==
    epc = "returned" =>
        /\ Len(cands) = 0 => clusters = <<>>
        /\ Len(cands) = 1 =>
            /\ Len(clusters) = 1
            /\ clusters[1].members = <<1>>
            /\ clusters[1].member_predictors = <<cands[1].label>>
            /\ clusters[1].representative = 1
            /\ clusters[1].mean_rmsd = <<0, 1>>
            /\ ~clusters[1].is_consensus

\* one SimRNA structure without a usable backbone, under the cutoff 2
C35_Witness ==
    /\ epc = "returned"
    /\ Len(cands) = 1
    /\ cands[1].label = "simrna"
    /\ cands[1].points = 0
    /\ cutoff = 2
    /\ Len(clusters) = 1

\* C36: a stage key that run() addresses and whose persisted status was not
\* completed when the Pipeline was constructed on a used output directory
\* has been marked anew by the time that run() has returned or raised.
C36_RetriedUnlessCompleted ==
    LET Called(k) ==
            CASE k = "stage1" -> ~opts.skip_infernal
              [] k = "stage3b_clustering" ->
                    opts.nstruct > 1 /\ opts.predictors # <<>>
              [] k = "stage4" -> ~opts.skip_scoring
              [] k \in {"stage2", "stage5"} -> TRUE
              [] OTHER -> k \in {Stage3Key(p) : p \in Requested(opts)}
        Marked(k) == \E i \in DOMAIN marks : marks[i] = k
    IN (pc \in {"done", "aborted"} /\ runs >= 2) =>
            \A k \in StageKeys :
                (Called(k) /\ loaded[k] # "completed") => Marked(k)

\* C37: in a run that found stage3b_clustering completed there is no
\* clustering result at any point, and a scoring stage that this run
\* performs collects the primary structure of each successful predictor,
\* no cluster representative.
C37_NoClustersOnResume ==
    (loaded["stage3b_clustering"] = "completed" /\ pc \in Running) =>
        /\ ensemble_result = 0
        /\ (pc = "stage5" /\ "stage4" \in work) =>
                pdb_files = {<<"primary", p>> :
                                p \in {q \in PredNames :
                                        /\ predictor_results[q].present
                                        /\ predictor_results[q].success}}

\* a resumed run whose clustering was completed before has scored the
\* primary structure of two predictors
C37_Witness ==
    /\ runs = 2
    /\ loaded["stage3b_clustering"] = "completed"
    /\ loaded["stage4"] # "completed"
    /\ pc = "stage5"
    /\ "stage4" \in work
    /\ "stage3b_clustering" \notin work
    /\ pdb_files = {<<"primary", "rhofold">>, <<"primary", "protenix">>}

\* C38: the metrics a Protenix dispatch over several devices returns are
\* those any other completion order of the same partition results would
\* have produced.
C38_MetricsOrderIndependent ==
    (Merged /\ call.pred = "protenix" /\ merged.success) =>
        \A order \in Permutations(DOMAIN gpu_results) :
            merged.metrics =
                UpdateAll({}, [i \in DOMAIN gpu_results |-> gpu_results[order[i]]], 1)

\* C39: the clusters returned partition the input: each candidate is a
\* member of exactly one cluster; a cluster's members are indexes of the
\* input in ascending order, its predictor tags are its members' labels
\* position by position, and its representative is one of its members.
C39_ClustersPartitionInput ==
    epc = "returned" =>
        /\ \A i \in 1..Len(cands) :
                Cardinality({k \in DOMAIN clusters :
                                i \in MembersOf(clusters[k])}) = 1
        /\ \A k \in DOMAIN clusters :
                LET c == clusters[k]
                IN /\ MembersOf(c) \subseteq 1..Len(cands)
                   /\ \A a, b \in DOMAIN c.members :
                        a < b => c.members[a] < c.members[b]
                   /\ DOMAIN c.member_predictors = DOMAIN c.members
                   /\ \A a \in DOMAIN c.members :
                        c.member_predictors[a] = cands[c.members[a]].label
                   /\ c.representative \in MembersOf(c)

\* three candidates in two clusters, the first and the third together,
\* carrying different predictor tags
C39_Witness ==
    /\ epc = "returned"
    /\ Len(cands) = 3
    /\ Len(clusters) = 2
    /\ clusters[1].members = <<1, 3>>
    /\ clusters[1].member_predictors = <<"rhofold", "simrna">>
    /\ clusters[1].representative = 1
    /\ clusters[2].members = <<2>>

====
